---- MODULE Spec2Model ----
(***************************************************************************)
(* Model of src/api/lambda_function.py: the Lambda handler that validates  *)
(* a request, builds the rubric prompt, calls the completion service,      *)
(* recovers a JSON object from the model's reply and normalizes it into    *)
(* the response body.                                                      *)
(*                                                                         *)
(* Representation.                                                         *)
(*  - A Python value is a tagged record: None, bool, number, str, list,    *)
(*    dict (JNull, JBool, JNum, JStr, JList, JObj).  A str whose content   *)
(*    is read as JSON text (the request body, the model's reply) is a      *)
(*    PyText: a sequence of lexical tokens.                                *)
(*  - The content of any other str is a sequence of chunks; a chunk is     *)
(*    either one whitespace character or a run of characters that neither  *)
(*    begins nor ends with whitespace, so that str.strip() is computed.    *)
(*    String tokens of a JSON text hold no brace character.                *)
(*  - The body of a response is the dict handed to json.dumps.             *)
(*  - A raised exception is a result record whose exc field names it.      *)
(***************************************************************************)
EXTENDS Integers, Sequences, FiniteSets

VARIABLES
    pc,           \* where the invocation of lambda_handler stands
    event,        \* the event argument (line 135)
    policy_text,  \* policy_text once validated (line 175)
    messages,     \* the prompt (line 191)
    calls,        \* calls of client.chat.completions.create in the invocation
    reply,        \* openai_response (line 195)
    response,     \* the response the handler returns
    raised        \* the exception that left the handler, or "none"

vars == <<pc, event, policy_text, messages, calls, reply, response, raised>>

(***************************************************************************)
(* Python values                                                           *)
(***************************************************************************)
JNull == [t |-> "null"]
JBool(b) == [t |-> "bool", b |-> b]
JNum(n) == [t |-> "num", n |-> n]
JStr(s) == [t |-> "str", s |-> s]
JList(items) == [t |-> "list", items |-> items]
JObj(m) == [t |-> "obj", m |-> m]
PyText(toks) == [t |-> "text", toks |-> toks]

EmptyDict == JObj(<<>>)

\* isinstance(v, dict): the only values that have a .get method
IsDict(v) == v.t = "obj"

\* isinstance(v, str)
IsStr(v) == v.t \in {"str", "text"}

\* d[key] = val on the mapping of a dict
Put(m, key, val) == [k \in (DOMAIN m) \cup {key} |-> IF k = key THEN val ELSE m[k]]

\* dict.get(key, default); the caller has established IsDict(d)
DictGet(d, key, default) == IF key \in DOMAIN d.m THEN d.m[key] ELSE default

\* bool(v), as the `or` of line 175 evaluates it
Truthy(v) ==
    CASE v.t = "null" -> FALSE
      [] v.t = "bool" -> v.b
      [] v.t = "num" -> v.n # <<"0">>
      [] v.t = "str" -> Len(v.s) > 0
      [] v.t = "text" -> Len(v.toks) > 0
      [] v.t = "list" -> Len(v.items) > 0
      [] v.t = "obj" -> DOMAIN v.m # {}

(***************************************************************************)
(* Results of operations that may raise                                    *)
(***************************************************************************)
Returned(v) == [exc |-> "none", val |-> v]
Raised(e) == [exc |-> e, val |-> JNull]

(***************************************************************************)
(* JSON text: tokens and json.loads                                        *)
(***************************************************************************)
P(c) == [k |-> "punct", v |-> <<c>>]
S(s) == [k |-> "str", v |-> s]
N(n) == [k |-> "num", v |-> <<n>>]
L(l) == [k |-> "lit", v |-> <<l>>]
W(w) == [k |-> "word", v |-> <<w>>]
Ws == [k |-> "ws", v |-> <<" ">>]

RECURSIVE SkipWs(_, _)
SkipWs(text, i) ==
    IF i <= Len(text) /\ text[i].k = "ws" THEN SkipWs(text, i + 1) ELSE i

ParseFail == [ok |-> FALSE, val |-> JNull, pos |-> 0]
ParseOk(v, pos) == [ok |-> TRUE, val |-> v, pos |-> pos]

LitValue(l) ==
    CASE l = <<"null">> -> JNull
      [] l = <<"true">> -> JBool(TRUE)
      [] l = <<"false">> -> JBool(FALSE)

RECURSIVE ParseValue(_, _), ParseMembers(_, _, _), ParseItems(_, _, _)

\* one JSON value starting at or after position i0
ParseValue(text, i0) ==
    LET i == SkipWs(text, i0) IN
    IF i > Len(text) THEN ParseFail
    ELSE LET tok == text[i] IN
         CASE tok.k = "str" -> ParseOk(JStr(tok.v), i + 1)
           [] tok.k = "num" -> ParseOk(JNum(tok.v), i + 1)
           [] tok.k = "lit" -> ParseOk(LitValue(tok.v), i + 1)
           [] tok = P("{") ->
                LET j == SkipWs(text, i + 1) IN
                IF j <= Len(text) /\ text[j] = P("}")
                THEN ParseOk(EmptyDict, j + 1)
                ELSE ParseMembers(text, j, <<>>)
           [] tok = P("[") ->
                LET j == SkipWs(text, i + 1) IN
                IF j <= Len(text) /\ text[j] = P("]")
                THEN ParseOk(JList(<<>>), j + 1)
                ELSE ParseItems(text, j, <<>>)
           [] OTHER -> ParseFail

\* "key": value pairs up to the closing brace; a repeated key keeps the last
ParseMembers(text, i, m) ==
    IF i > Len(text) \/ text[i].k # "str" THEN ParseFail
    ELSE LET key == text[i].v
             c == SkipWs(text, i + 1)
         IN  IF c > Len(text) \/ text[c] # P(":") THEN ParseFail
             ELSE LET r == ParseValue(text, c + 1) IN
                  IF ~r.ok THEN ParseFail
                  ELSE LET m2 == Put(m, key, r.val)
                           e == SkipWs(text, r.pos)
                       IN  IF e > Len(text) THEN ParseFail
                           ELSE IF text[e] = P("}") THEN ParseOk(JObj(m2), e + 1)
                           ELSE IF text[e] = P(",")
                                THEN ParseMembers(text, SkipWs(text, e + 1), m2)
                           ELSE ParseFail

\* list items up to the closing bracket
ParseItems(text, i, items) ==
    LET r == ParseValue(text, i) IN
    IF ~r.ok THEN ParseFail
    ELSE LET items2 == Append(items, r.val)
             e == SkipWs(text, r.pos)
         IN  IF e > Len(text) THEN ParseFail
             ELSE IF text[e] = P("]") THEN ParseOk(JList(items2), e + 1)
             ELSE IF text[e] = P(",") THEN ParseItems(text, e + 1, items2)
             ELSE ParseFail

\* json.loads(s): TypeError unless s is a str; JSONDecodeError unless the
\* whole text is one JSON value
JsonLoads(s) ==
    IF s.t # "text" THEN Raised("TypeError")
    ELSE LET r == ParseValue(s.toks, 1) IN
         IF r.ok /\ SkipWs(s.toks, r.pos) > Len(s.toks)
         THEN Returned(r.val)
         ELSE Raised("JSONDecodeError")

(***************************************************************************)
(* str.strip and the regular expression of line 209                        *)
(***************************************************************************)
Whitespace == {" ", "\t", "\n"}

RECURSIVE LStrip(_)
LStrip(s) == IF Len(s) > 0 /\ s[1] \in Whitespace THEN LStrip(Tail(s)) ELSE s

RECURSIVE RStrip(_)
RStrip(s) ==
    IF Len(s) > 0 /\ s[Len(s)] \in Whitespace
    THEN RStrip(SubSeq(s, 1, Len(s) - 1))
    ELSE s

\* str.strip()
Strip(s) == RStrip(LStrip(s))

Positions(text, tok) == {i \in 1..Len(text) : text[i] = tok}

Min(set) == CHOOSE x \in set : \A y \in set : x <= y
Max(set) == CHOOSE x \in set : \A y \in set : x >= y

NoMatch == [found |-> FALSE, group |-> <<>>]

\* a search that stops at the first "}" (the pattern \{.*?\})
RegexSearchNonGreedy(text) ==
    LET opens == Positions(text, P("{")) IN
    IF opens = {} THEN NoMatch
    ELSE LET first == Min(opens)
             closes == {i \in Positions(text, P("}")) : i > first}
         IN  IF closes = {} THEN NoMatch
             ELSE [found |-> TRUE, group |-> SubSeq(text, first, Min(closes))]

\* re.search(r'\{.*\}', text, re.DOTALL): from the first "{" to the last "}"
\* that follows it
RegexSearch(text) ==
    LET opens == Positions(text, P("{")) IN
    IF opens = {} THEN NoMatch
    ELSE LET first == Min(opens)
             closes == {i \in Positions(text, P("}")) : i > first}
         IN  IF closes = {} THEN NoMatch
             ELSE [found |-> TRUE, group |-> SubSeq(text, first, Max(closes))]

(***************************************************************************)
(* parse_request_body                                                      *)
(***************************************************************************)
K(s) == <<s>>
Str(s) == JStr(<<s>>)

\* event.get('body'), json.loads for a str, {} for None or an unparsable str
parse_request_body(ev) ==
    IF ~IsDict(ev) THEN Raised("AttributeError")
    ELSE LET body == DictGet(ev, K("body"), JNull) IN
         IF IsStr(body)
         THEN LET r == JsonLoads(body) IN
              IF r.exc = "JSONDecodeError" THEN Returned(EmptyDict) ELSE r
         ELSE IF body = JNull THEN Returned(EmptyDict)
         ELSE Returned(body)

(***************************************************************************)
(* create_analysis_prompt                                                  *)
(***************************************************************************)
delimiter == "####"
system_message == <<"RUBRIC">>

create_analysis_prompt(text) ==
    << [role |-> "system", content |-> system_message],
       [role |-> "user", content |-> <<delimiter>> \o text \o <<delimiter>>] >>

(***************************************************************************)
(* lambda_handler: the preflight test, validation, parsing of the reply,   *)
(* normalization and the responses                                         *)
(***************************************************************************)
PreflightHeaders ==
    [AllowOrigin |-> "*", AllowMethods |-> "POST, OPTIONS",
     AllowHeaders |-> "Content-Type, Authorization, X-Amz-Date, X-Api-Key",
     MaxAge |-> "300"]

cors_headers ==
    [ContentType |-> "application/json", AllowOrigin |-> "*",
     AllowMethods |-> "POST, OPTIONS",
     AllowHeaders |-> "Content-Type, Authorization, X-Amz-Date, X-Api-Key"]

NoResponse == [statusCode |-> 0, headers |-> <<>>, body |-> JNull]

PreflightResponse ==
    [statusCode |-> 200, headers |-> PreflightHeaders, body |-> JStr(<<>>)]

ValidationFailure ==
    [statusCode |-> 400, headers |-> cors_headers,
     body |-> JObj(Put(Put(<<>>, K("message"), Str("Missing required field: policy_text")),
                       K("status"), Str("error")))]

\* the except branch of lines 243-255; str(e) is the name of the exception
ExecutionFailure(e) ==
    [statusCode |-> 500, headers |-> cors_headers,
     body |-> JObj(Put(Put(Put(<<>>, K("message"), Str("Error analyzing privacy policy")),
                           K("error"), Str(e)),
                       K("status"), Str("error")))]

Success(response_body) ==
    [statusCode |-> 200, headers |-> cors_headers, body |-> response_body]

\* event.get("requestContext", {}).get("http", {}).get("method")
RequestMethod(ev) ==
    IF ~IsDict(ev) THEN Raised("AttributeError")
    ELSE LET rc == DictGet(ev, K("requestContext"), EmptyDict) IN
         IF ~IsDict(rc) THEN Raised("AttributeError")
         ELSE LET http == DictGet(rc, K("http"), EmptyDict) IN
              IF ~IsDict(http) THEN Raised("AttributeError")
              ELSE Returned(DictGet(http, K("method"), JNull))

\* a handler without the preflight branch
IsPreflightNever(ev) == FALSE

\* the test of line 152, once RequestMethod has returned
IsPreflight(ev) == RequestMethod(ev).val = Str("OPTIONS")

\* body.get("policy_text") or "", without the strip
StrippedPolicyTextNoStrip(body) ==
    IF ~IsDict(body) THEN Raised("AttributeError")
    ELSE LET v == DictGet(body, K("policy_text"), JNull)
             w == IF Truthy(v) THEN v ELSE JStr(<<>>)
         IN  IF w.t # "str" THEN Raised("AttributeError")
             ELSE Returned(JStr(w.s))

\* (body.get("policy_text") or "").strip()
StrippedPolicyText(body) ==
    IF ~IsDict(body) THEN Raised("AttributeError")
    ELSE LET v == DictGet(body, K("policy_text"), JNull)
             w == IF Truthy(v) THEN v ELSE JStr(<<>>)
         IN  IF w.t # "str" THEN Raised("AttributeError")
             ELSE Returned(JStr(Strip(w.s)))

\* a parser that falls back to {} when recovery fails
ParseReplyLenient(openai_response) ==
    LET strict == JsonLoads(openai_response) IN
    IF strict.exc # "JSONDecodeError" THEN strict
    ELSE LET json_match == RegexSearch(openai_response.toks) IN
         IF json_match.found
         THEN LET r == JsonLoads(PyText(json_match.group)) IN
              IF r.exc = "none" THEN r ELSE Returned(EmptyDict)
         ELSE Returned(EmptyDict)

\* lines 204-213: strict parse, then the parse of the regex match; an
\* exception raised inside the except branch propagates
ParseReply(openai_response) ==
    LET strict == JsonLoads(openai_response) IN
    IF strict.exc # "JSONDecodeError" THEN strict
    ELSE LET json_match == RegexSearch(openai_response.toks) IN
         IF json_match.found
         THEN JsonLoads(PyText(json_match.group))
         ELSE Raised("ValueError")

NotSpecified == Str("Not specified")
Unknown == Str("Unknown")

Categories == {K("data_collecting"), K("data_sharing"), K("data_retention")}

\* the two defaults exchanged
CategoryJudgmentSwapped(category) ==
    JObj(Put(Put(<<>>, K("details"), DictGet(category, K("details"), Unknown)),
             K("severity"), DictGet(category, K("severity"), NotSpecified)))

\* lines 219-230, for one category dict
CategoryJudgment(category) ==
    JObj(Put(Put(<<>>, K("details"), DictGet(category, K("details"), NotSpecified)),
             K("severity"), DictGet(category, K("severity"), Unknown)))

CountHigh(analysis_result) ==
    Cardinality({c \in Categories :
        /\ c \in DOMAIN analysis_result.m
        /\ IsDict(analysis_result.m[c])
        /\ DictGet(analysis_result.m[c], K("severity"), Unknown) = Str("High")})

\* an overall risk that applies the rubric's "two High" rule itself
OverallRiskRecomputed(analysis_result) ==
    IF CountHigh(analysis_result) >= 2 THEN Str("High")
    ELSE DictGet(analysis_result, K("overall_privacy_risk"), Unknown)

\* line 231
OverallRisk(analysis_result) ==
    DictGet(analysis_result, K("overall_privacy_risk"), Unknown)

\* lines 216-233: AttributeError when analysis_result, or the value of a
\* category key, has no .get
Normalize(analysis_result) ==
    IF ~IsDict(analysis_result) THEN Raised("AttributeError")
    ELSE LET cat(c) == DictGet(analysis_result, c, EmptyDict) IN
         IF \E c \in Categories : ~IsDict(cat(c)) THEN Raised("AttributeError")
         ELSE Returned(JObj(
                  Put(Put(<<>>, K("status"), Str("success")),
                      K("summary"),
                      JObj(Put([c \in Categories |-> CategoryJudgment(cat(c))],
                               K("overall_privacy_risk"),
                               OverallRisk(analysis_result))))))

\* lines 203-255 for a returned completion
HandleReply(openai_response) ==
    LET parsed == ParseReply(openai_response) IN
    IF parsed.exc # "none" THEN ExecutionFailure(parsed.exc)
    ELSE LET body == Normalize(parsed.val) IN
         IF body.exc # "none" THEN ExecutionFailure(body.exc)
         ELSE Success(body.val)

(***************************************************************************)
(* Inputs: the events Lambda may deliver and the replies the completion    *)
(* service may give                                                        *)
(***************************************************************************)
MaxProse == 2

Absent == [t |-> "absent"]

\* the dict of the pairs <<key, value>> whose value is not Absent
RECURSIVE MkDict(_)
MkDict(pairs) ==
    IF pairs = <<>> THEN <<>>
    ELSE LET rest == MkDict(Tail(pairs)) IN
         IF Head(pairs)[2] = Absent THEN rest
         ELSE IF Head(pairs)[1] \in DOMAIN rest THEN rest
         ELSE Put(rest, Head(pairs)[1], Head(pairs)[2])

\* "key": value as JSON text
Member(key, valueText) == <<S(K(key)), P(":")>> \o valueText

\* members (an empty one is left out) separated by commas
RECURSIVE JoinMembers(_)
JoinMembers(ms) ==
    IF ms = <<>> THEN <<>>
    ELSE LET rest == JoinMembers(Tail(ms)) IN
         IF Head(ms) = <<>> THEN rest
         ELSE IF rest = <<>> THEN Head(ms)
         ELSE Head(ms) \o <<P(",")>> \o rest

ObjectText(ms) == <<P("{")>> \o JoinMembers(ms) \o <<P("}")>>

PolicyStrings ==
    { <<>>, <<" ">>, <<"\n", "\t">>,
      <<"We collect your email.">>, <<" ", "We collect your email.", "\n">> }

PolicyValueTexts ==
    {<<S(s)>> : s \in PolicyStrings}
      \cup { <<L("null")>>, <<N("0")>>, <<N("5")>>, <<P("["), P("]")>>,
             <<P("["), N("5"), P("]")>> }

BodyTexts ==
    {ObjectText(<<Member("policy_text", v)>>) : v \in PolicyValueTexts}
      \cup { <<Ws, P("{"), Ws, S(K("policy_text")), P(":"), Ws,
               S(<<"\n", "We collect your email.", " ">>), Ws, P("}"), Ws>>,
             <<Ws>>,
             <<>>, <<W("hello")>>, <<P("{"), S(K("policy_text"))>>,
             <<P("{"), P("}")>>, <<P("["), P("]")>>, <<L("null")>>,
             <<S(K("We collect your email."))>>, <<N("5")>> }

Bodies ==
    {PyText(t) : t \in BodyTexts}
      \cup { Absent, JNull, JNum(<<"5">>),
             JObj(MkDict(<< <<K("policy_text"), Str("We collect your email.")>> >>)) }

Http(h) == JObj(MkDict(<< <<K("http"), h>> >>))
Method(m) == JObj(MkDict(<< <<K("method"), m>> >>))

RequestContexts ==
    { Absent, JNull, Str("ctx"), EmptyDict, Http(JNull),
      Http(Method(Str("POST"))), Http(Method(Str("OPTIONS"))) }

Events ==
    { JObj(MkDict(<< <<K("requestContext"), rc>>, <<K("body"), b>> >>)) :
        rc \in RequestContexts, b \in Bodies }

CategoryValueTexts ==
    { <<S(K("n/a"))>>,
      ObjectText(<<>>),
      ObjectText(<<Member("details", <<S(K("email"))>>), Member("severity", <<S(K("Low"))>>)>>),
      ObjectText(<<Member("details", <<S(K("email"))>>), Member("severity", <<S(K("High"))>>)>>),
      ObjectText(<<Member("severity", <<S(K("Critical"))>>)>>),
      ObjectText(<<Member("details", <<S(K("email"))>>), Member("severity", <<L("null")>>)>>) }

CategoryMembers(key) == {<<>>} \cup {Member(key, v) : v \in CategoryValueTexts}

OverallMembers ==
    {<<>>} \cup {Member("overall_privacy_risk", v) :
                    v \in {<<S(K("Low"))>>, <<S(K("High"))>>, <<S(K("Severe"))>>, <<L("null")>>}}

\* replies that are one JSON object
ObjectReplies ==
    { ObjectText(<<a, b, c, o>>) :
        a \in CategoryMembers("data_collecting"),
        b \in CategoryMembers("data_sharing"),
        c \in CategoryMembers("data_retention"),
        o \in OverallMembers }

RubricReply ==
    ObjectText(<< Member("data_collecting",
                     ObjectText(<<Member("details", <<S(K("email"))>>), Member("severity", <<S(K("Low"))>>)>>)),
                  Member("data_sharing",
                     ObjectText(<<Member("details", <<S(K("none"))>>), Member("severity", <<S(K("Low"))>>)>>)),
                  Member("overall_privacy_risk", <<S(K("Low"))>>) >>)

SpacedReply ==
    <<Ws, P("{"), Ws, S(K("overall_privacy_risk")), Ws, P(":"), Ws, S(K("Low")),
      Ws, P("}"), Ws>>

Cores ==
    { ObjectText(<<>>),
      SpacedReply,
      ObjectText(<<Member("overall_privacy_risk", <<S(K("High"))>>)>>),
      RubricReply,
      <<>>, <<N("7")>>, <<W("Sorry")>>,
      <<P("{"), S(K("data_collecting")), P(":")>> }

ProseBefore == {W("Here"), P("{"), P("}"), P("[")}
ProseAfter == {W("Thanks"), P("{"), P("}"), P("]")}

SeqsUpTo(alphabet, n) == UNION {[1..k -> alphabet] : k \in 0..n}

\* replies with up to MaxProse tokens of text around a core
WrappedReplies ==
    UNION { { pre \o core \o post :
                post \in SeqsUpTo(ProseAfter, MaxProse - Len(pre)),
                core \in Cores } :
            pre \in SeqsUpTo(ProseBefore, MaxProse) }

\* what response.choices[0].message.content may be: a str, or None
Replies == {JNull} \cup {PyText(t) : t \in ObjectReplies \cup WrappedReplies}

(***************************************************************************)
(* The state machine of one Lambda container: invocations one at a time    *)
(***************************************************************************)
Init ==
    /\ pc = "idle"
    /\ event = JNull
    /\ policy_text = JNull
    /\ messages = <<>>
    /\ calls = 0
    /\ reply = JNull
    /\ response = NoResponse
    /\ raised = "none"

\* Lambda invokes lambda_handler(event, context)
Invoke(ev) ==
    /\ pc = "idle"
    /\ pc' = "received"
    /\ event' = ev
    /\ UNCHANGED <<policy_text, messages, calls, reply, response, raised>>

\* lines 146-162: an exception raised by the test of line 152 is outside the
\* try and leaves the handler
HandlePreflight ==
    /\ pc = "received"
    /\ LET method == RequestMethod(event) IN
       IF method.exc # "none"
       THEN /\ pc' = "done"
            /\ raised' = method.exc
            /\ UNCHANGED response
       ELSE IF IsPreflight(event)
       THEN /\ pc' = "done"
            /\ response' = PreflightResponse
            /\ UNCHANGED raised
       ELSE /\ pc' = "validating"
            /\ UNCHANGED <<response, raised>>
    /\ UNCHANGED <<event, policy_text, messages, calls, reply>>

\* lines 172-191: body, policy_text, the 400 response or the prompt
ValidateRequest ==
    /\ pc = "validating"
    /\ LET body == parse_request_body(event) IN
       IF body.exc # "none"
       THEN /\ pc' = "done"
            /\ response' = ExecutionFailure(body.exc)
            /\ UNCHANGED <<policy_text, messages>>
       ELSE LET text == StrippedPolicyText(body.val) IN
            IF text.exc # "none"
            THEN /\ pc' = "done"
                 /\ response' = ExecutionFailure(text.exc)
                 /\ UNCHANGED <<policy_text, messages>>
            ELSE IF ~Truthy(text.val)
            THEN /\ pc' = "done"
                 /\ response' = ValidationFailure
                 /\ UNCHANGED <<policy_text, messages>>
            ELSE /\ pc' = "prompted"
                 /\ policy_text' = text.val
                 /\ messages' = create_analysis_prompt(text.val.s)
                 /\ UNCHANGED response
    /\ UNCHANGED <<event, calls, reply, raised>>

\* lines 195-198 and 38-46: the completion service returns content r
CompletionReturns(r) ==
    /\ pc = "prompted"
    /\ pc' = "completed"
    /\ calls' = calls + 1
    /\ reply' = r
    /\ UNCHANGED <<event, policy_text, messages, response, raised>>

\* lines 195-198 and 243-255: the completion service raises
CompletionRaises ==
    /\ pc = "prompted"
    /\ pc' = "done"
    /\ calls' = calls + 1
    /\ response' = ExecutionFailure("UpstreamError")
    /\ UNCHANGED <<event, policy_text, messages, reply, raised>>

\* lines 203-258
HandleCompletion ==
    /\ pc = "completed"
    /\ pc' = "done"
    /\ response' = HandleReply(reply)
    /\ UNCHANGED <<event, policy_text, messages, calls, reply, raised>>

\* the invocation is over; nothing of it persists
Return ==
    /\ pc = "done"
    /\ pc' = "idle"
    /\ event' = JNull
    /\ policy_text' = JNull
    /\ messages' = <<>>
    /\ calls' = 0
    /\ reply' = JNull
    /\ response' = NoResponse
    /\ raised' = "none"

Next ==
    \/ \E ev \in Events : Invoke(ev)
    \/ HandlePreflight
    \/ ValidateRequest
    \/ \E r \in Replies : CompletionReturns(r)
    \/ CompletionRaises
    \/ HandleCompletion
    \/ Return

Spec == Init /\ [][Next]_vars

(***************************************************************************)
(* Vocabulary of the claims                                                *)
(***************************************************************************)
Done == pc = "done"

At(d, key) == d.m[K(key)]

IsSuccess(resp) ==
    /\ resp.statusCode = 200
    /\ IsDict(resp.body)
    /\ DictGet(resp.body, K("status"), JNull) = Str("success")

IsValidationFailure(resp) ==
    /\ resp.statusCode = 400
    /\ resp.body = JObj(MkDict(<< <<K("status"), Str("error")>>,
                                  <<K("message"), Str("Missing required field: policy_text")>> >>))

IsExecutionFailure(resp) ==
    /\ resp.statusCode = 500
    /\ IsDict(resp.body)
    /\ DOMAIN resp.body.m = {K("status"), K("message"), K("error")}
    /\ At(resp.body, "status") = Str("error")
    /\ At(resp.body, "message") = Str("Error analyzing privacy policy")
    /\ At(resp.body, "error").t = "str"

\* the completion service returned (rather than raised) in this invocation
ReplyReturned == Done /\ calls = 1 /\ ~(response = ExecutionFailure("UpstreamError") /\ reply = JNull)

\* the model's reply as the handler parsed it
Parsed == ParseReply(reply)

Summary == At(response.body, "summary")

SeverityValues == {Str("Low"), Str("Medium"), Str("High"), Str("Unknown")}

\* field f of category c is not in the parsed reply
FieldAbsent(parsed, c, f) ==
    \/ c \notin DOMAIN parsed.m
    \/ IsDict(parsed.m[c]) /\ K(f) \notin DOMAIN parsed.m[c].m

(***************************************************************************)
(* C1: in every success response the summary has the three category keys,  *)
(* each with details and severity, and overall_privacy_risk; a details      *)
(* field absent from the parsed reply is "Not specified", a severity        *)
(* (category or overall) absent from it is "Unknown".                       *)
(***************************************************************************)
C1_DefaultsFilled ==
    (Done /\ IsSuccess(response)) =>
        /\ IsDict(Summary)
        /\ DOMAIN Summary.m = Categories \cup {K("overall_privacy_risk")}
        /\ \A c \in Categories :
             /\ IsDict(Summary.m[c])
             /\ DOMAIN Summary.m[c].m = {K("details"), K("severity")}
             /\ FieldAbsent(Parsed.val, c, "details")
                  => At(Summary.m[c], "details") = Str("Not specified")
             /\ FieldAbsent(Parsed.val, c, "severity")
                  => At(Summary.m[c], "severity") = Str("Unknown")
        /\ K("overall_privacy_risk") \notin DOMAIN Parsed.val.m
             => At(Summary, "overall_privacy_risk") = Str("Unknown")

\* a success whose reply lacks a category, a details field of another
\* category and the overall key
C1_Witness ==
    /\ Done /\ IsSuccess(response)
    /\ K("data_sharing") \notin DOMAIN Parsed.val.m
    /\ K("data_collecting") \in DOMAIN Parsed.val.m
    /\ FieldAbsent(Parsed.val, K("data_collecting"), "details")
    /\ ~FieldAbsent(Parsed.val, K("data_collecting"), "severity")
    /\ K("overall_privacy_risk") \notin DOMAIN Parsed.val.m

(***************************************************************************)
(* C2: once the reply has parsed (strictly or by recovery) the handler      *)
(* returns the success response, whatever the parsed value is.              *)
(***************************************************************************)
C2_NormalizationNeverFails ==
    (ReplyReturned /\ Parsed.exc = "none") => IsSuccess(response)

\* policy_text is absent from dict d, null, or a str of whitespace only
PolicyTextBlank(d) ==
    \/ K("policy_text") \notin DOMAIN d.m
    \/ At(d, "policy_text") = JNull
    \/ /\ At(d, "policy_text").t = "str"
       /\ \A i \in 1..Len(At(d, "policy_text").s) : At(d, "policy_text").s[i] \in Whitespace

\* the request has no body, an unparsable body, or a body object whose
\* policy_text is blank
PolicyTextMissing(ev) ==
    /\ IsDict(ev)
    /\ LET body == DictGet(ev, K("body"), JNull) IN
       \/ body = JNull
       \/ body.t = "text" /\ JsonLoads(body).exc = "JSONDecodeError"
       \/ /\ body.t = "text" /\ JsonLoads(body).exc = "none"
          /\ IsDict(JsonLoads(body).val) /\ PolicyTextBlank(JsonLoads(body).val)
       \/ IsDict(body) /\ PolicyTextBlank(body)

\* the test of line 152 neither raised nor answered the request
ReachedValidation(ev) ==
    /\ RequestMethod(ev).exc = "none"
    /\ RequestMethod(ev).val # Str("OPTIONS")

C4_AllFailuresCaught ==
    Done =>
        /\ raised = "none"
        /\ \/ IsSuccess(response)
           \/ IsValidationFailure(response)
           \/ IsExecutionFailure(response)
           \/ response = PreflightResponse

(***************************************************************************)
(* C5: an invocation ends in the execution-failure response only if the     *)
(* completion service was called in it; a request rejected before the call  *)
(* ends in the validation-failure response.                                 *)
(***************************************************************************)
C5_ExecutionFailureOnlyAfterCall ==
    (Done /\ raised = "none" /\ response # PreflightResponse) =>
        /\ IsExecutionFailure(response) => calls = 1
        /\ calls = 0 => IsValidationFailure(response)

(***************************************************************************)
(* Vocabulary of C6 and C7: a reply read as text before, an embedded JSON   *)
(* object, text after                                                       *)
(***************************************************************************)
Before(text, i) == SubSeq(text, 1, i)
Core(text, i, j) == SubSeq(text, i + 1, j)
After(text, j) == SubSeq(text, j + 1, Len(text))

Has(text, tok) == \E n \in 1..Len(text) : text[n] = tok
HasWord(text) == \E n \in 1..Len(text) : text[n].k = "word"

\* words, whitespace and braces only
BracedProse(text) ==
    \A n \in 1..Len(text) :
        text[n].k \in {"word", "ws"} \/ text[n] \in {P("{"), P("}")}

IsObjectText(text) ==
    /\ Len(text) >= 2
    /\ text[1] = P("{")
    /\ text[Len(text)] = P("}")
    /\ JsonLoads(PyText(text)).exc = "none"

\* the reply was parsed to the embedded object and answered as the object
\* alone is answered
RecoveredAs(core) ==
    /\ Parsed = JsonLoads(PyText(core))
    /\ response = HandleReply(PyText(core))

(***************************************************************************)
(* C6 as stated: a reply that is one valid JSON object with explanatory     *)
(* prose before and/or after it, prose with "{" or "}" included, is parsed  *)
(* by substring recovery and answered as the embedded object alone.         *)
(***************************************************************************)
C6_AnyProseRecovered ==
    (ReplyReturned /\ reply.t = "text") =>
        \A i \in 0..Len(reply.toks) : \A j \in i..Len(reply.toks) :
            ( /\ HasWord(Before(reply.toks, i) \o After(reply.toks, j))
              /\ BracedProse(Before(reply.toks, i))
              /\ BracedProse(After(reply.toks, j))
              /\ IsObjectText(Core(reply.toks, i, j)) )
            => RecoveredAs(Core(reply.toks, i, j))

(***************************************************************************)
(* C6 amended: a reply that is not valid JSON as a whole and is one valid   *)
(* JSON object with text before and/or after it, no "{" before the object   *)
(* and no "}" after it, is parsed by substring recovery and answered as     *)
(* the embedded object alone.                                               *)
(***************************************************************************)
C6_BraceFreeProseRecovered ==
    (ReplyReturned /\ reply.t = "text") =>
        \A i \in 0..Len(reply.toks) : \A j \in i..Len(reply.toks) :
            ( /\ Before(reply.toks, i) \o After(reply.toks, j) # <<>>
              /\ ~Has(Before(reply.toks, i), P("{"))
              /\ ~Has(After(reply.toks, j), P("}"))
              /\ IsObjectText(Core(reply.toks, i, j))
              /\ JsonLoads(reply).exc = "JSONDecodeError" )
            => RecoveredAs(Core(reply.toks, i, j))

\* the rubric-shaped object with a word before it and a word after it,
\* answered with success
C6_Witness ==
    /\ ReplyReturned
    /\ reply = PyText(<<W("Here")>> \o RubricReply \o <<W("Thanks")>>)
    /\ JsonLoads(reply).exc = "JSONDecodeError"
    /\ IsSuccess(response)
    /\ At(Summary, "overall_privacy_risk") = Str("Low")

\* neither the reply nor the text from its first "{" to its last "}" is JSON
BothParsesFail(r) ==
    /\ JsonLoads(r).exc = "JSONDecodeError"
    /\ \/ ~RegexSearch(r.toks).found
       \/ JsonLoads(PyText(RegexSearch(r.toks).group)).exc = "JSONDecodeError"

(***************************************************************************)
(* C7: when the reply is not valid JSON and the text from its first "{" to  *)
(* its last "}" (if any) is not valid JSON either, the handler returns the  *)
(* execution-failure response, with an error detail, and never success.     *)
(***************************************************************************)
C7_UnparsableReplyFails ==
    (ReplyReturned /\ reply.t = "text" /\ BothParsesFail(reply)) =>
        /\ ~IsSuccess(response)
        /\ IsExecutionFailure(response)
        /\ Truthy(At(response.body, "error"))

\* a reply with braces whose span is not JSON, answered with the failure
C7_Witness ==
    /\ ReplyReturned /\ reply.t = "text" /\ BothParsesFail(reply)
    /\ RegexSearch(reply.toks).found
    /\ IsExecutionFailure(response)

(***************************************************************************)
(* C8: every severity of a success response (the three categories' and     *)
(* overall_privacy_risk) is one of Low, Medium, High, Unknown.              *)
(***************************************************************************)
C8_SeveritiesEnumerated ==
    (Done /\ IsSuccess(response)) =>
        /\ \A c \in Categories : At(Summary.m[c], "severity") \in SeverityValues
        /\ At(Summary, "overall_privacy_risk") \in SeverityValues

(***************************************************************************)
(* C9: whenever the parsed reply has overall_privacy_risk, the success      *)
(* response carries exactly that value, whatever the category severities.   *)
(***************************************************************************)
C9_OverallPropagated ==
    (Done /\ IsSuccess(response) /\ K("overall_privacy_risk") \in DOMAIN Parsed.val.m) =>
        At(Summary, "overall_privacy_risk") = At(Parsed.val, "overall_privacy_risk")

\* stated Low while two categories are High
C9_Witness ==
    /\ Done /\ IsSuccess(response)
    /\ K("overall_privacy_risk") \in DOMAIN Parsed.val.m
    /\ At(Parsed.val, "overall_privacy_risk") = Str("Low")
    /\ CountHigh(Parsed.val) >= 2
    /\ At(Summary, "overall_privacy_risk") = Str("Low")

(***************************************************************************)
(* C10: in an invocation the completion service is called at most once,     *)
(* and only for a request that is not a preflight and whose trimmed         *)
(* policy_text is non-empty; after a failed call or an unparsable reply     *)
(* there is no second call.                                                 *)
(***************************************************************************)
C10_CalledAtMostOnceAfterValidation ==
    /\ calls \in {0, 1}
    /\ calls = 1 =>
         /\ pc \in {"completed", "done"}
         /\ RequestMethod(event).exc = "none"
         /\ RequestMethod(event).val # Str("OPTIONS")
         /\ policy_text.t = "str"
         /\ Len(policy_text.s) > 0
         /\ policy_text.s[1] \notin Whitespace
         /\ policy_text.s[Len(policy_text.s)] \notin Whitespace
         /\ ~PolicyTextMissing(event)
    /\ (Done /\ (IsValidationFailure(response) \/ response = PreflightResponse))
         => calls = 0

\* the one call failed, or its reply was unparsable, and the invocation
\* ended with that single call
C10_Witness ==
    /\ Done /\ calls = 1
    /\ IsExecutionFailure(response)
    /\ reply.t = "text" => BothParsesFail(reply)

====
